---- MODULE Spec2Model ----
(***************************************************************************)
(* lazy-map: a Proxy over {spec, source, store, deletedKeys} whose traps   *)
(* compute a property from the mapping spec on first read and memoize it   *)
(* (src/lib/mapping.ts).                                                   *)
(*                                                                         *)
(* JavaScript values are modelled as strings; Undefined and the inherited  *)
(* Object.prototype members are distinguished strings that no modelled     *)
(* program string equals.  Objects are modelled as sequences of            *)
(* [key, value] entries in insertion order (the own-property order of      *)
(* non-integer string keys) on top of Object.prototype.                    *)
(***************************************************************************)
EXTENDS Integers, Sequences, FiniteSets

\* target: the ProxyTarget behind the record; calls: how often each spec
\* function has run (the jest.fn counters); since: how often each has run
\* since the latest delete of its key; last, prev: the two latest
\* operations with their results; ops: operations performed so far;
\* written: the keys assigned so far; other: a second record of the same
\* factory (the caller operates on target and may switch between the two);
\* stack: the calls of spec functions a read taken step by step is inside
VARIABLES target, other, calls, since, written, last, prev, ops, stack

vars == <<target, other, calls, since, written, last, prev, ops, stack>>

----------------------------------------------------------------------------
(* Bounds *)

\* compute functions are jest.fn counters; reads stop once a counter is full
MaxCalls == 2

\* operations a caller performs on one record
MaxOps == 3

\* nested calls of spec functions a read taken step by step may be inside
MaxDepth == 4

----------------------------------------------------------------------------
(* JavaScript values and plain objects *)

Undefined == "<undefined>"

\* a property every plain object ({} or an object literal) inherits
ObjectPrototype == [toString |-> "<function toString>"]

ObjectPrototypeKeys == DOMAIN ObjectPrototype

\* String(v), as applied by the + operator with a string operand
JSString(v) == IF v = Undefined THEN "undefined" ELSE v

\* ToBoolean(v) is false
IsFalsy(v) == v \in {"", Undefined}

RECURSIVE IndexOf(_, _, _)
IndexOf(obj, key, i) ==
  IF i > Len(obj) THEN 0
  ELSE IF obj[i].key = key THEN i
  ELSE IndexOf(obj, key, i + 1)

\* Object.prototype.hasOwnProperty
HasOwn(obj, key) == IndexOf(obj, key, 1) # 0

\* the `in` operator: own or inherited
In(obj, key) == HasOwn(obj, key) \/ key \in ObjectPrototypeKeys

\* obj[key]: own value, else inherited value, else undefined
Lookup(obj, key) ==
  IF HasOwn(obj, key) THEN obj[IndexOf(obj, key, 1)].value
  ELSE IF key \in ObjectPrototypeKeys THEN ObjectPrototype[key]
  ELSE Undefined

\* obj[key] = value: overwrite in place, or append a new own property
Assign(obj, key, value) ==
  IF HasOwn(obj, key)
  THEN [obj EXCEPT ![IndexOf(obj, key, 1)].value = value]
  ELSE Append(obj, [key |-> key, value |-> value])

\* delete obj[key]
DeleteOwn(obj, key) ==
  LET i == IndexOf(obj, key, 1)
  IN IF i = 0 THEN obj
     ELSE SubSeq(obj, 1, i - 1) \o SubSeq(obj, i + 1, Len(obj))

\* Object.keys(obj)
ObjectKeys(obj) == [i \in 1..Len(obj) |-> obj[i].key]

SeqToSet(s) == {s[i] : i \in 1..Len(s)}

\* Array.from(new Set(keys)): first occurrences, in order
RECURSIVE Dedupe(_)
Dedupe(keys) ==
  IF keys = <<>> THEN <<>>
  ELSE LET front == Dedupe(SubSeq(keys, 1, Len(keys) - 1))
           k == keys[Len(keys)]
       IN IF k \in SeqToSet(front) THEN front ELSE Append(front, k)

\* Array.prototype.filter(key => !drop.has(key))
RECURSIVE FilterOut(_, _)
FilterOut(keys, drop) ==
  IF keys = <<>> THEN <<>>
  ELSE LET rest == FilterOut(Tail(keys), drop)
       IN IF Head(keys) \in drop THEN rest ELSE <<Head(keys)>> \o rest

----------------------------------------------------------------------------
(* The mapping spec and source of the test suite *)

\* own keys of the MappingSpec, in declaration order
SpecKeys == <<"name", "phone", "contactInfo">>

SpecKeySet == SeqToSet(SpecKeys)

\* the spec as a plain object; a value names the function stored there
spec == [i \in 1..Len(SpecKeys) |-> [key |-> SpecKeys[i], value |-> SpecKeys[i]]]

\* a spec whose function at key f throws when called (as a
\* row => JSON.parse(row.property_bag) does on a malformed row)
Throwing(f) ==
  [i \in 1..Len(SpecKeys) |->
     [key |-> SpecKeys[i],
      value |-> IF SpecKeys[i] = f THEN "throw" ELSE SpecKeys[i]]]

\* the specs with one throwing function
ThrowingSpecs == {Throwing(f) : f \in SpecKeySet}

\* source objects passed to the constructor
Sources ==
  [first : {"Lando"}, last : {"Calrissian"},
   mobile : {"555-123-1234", ""}, home : {"555-555-5555"}]

\* property names a caller uses: the spec keys, an expando, an inherited name
Keys == SpecKeySet \cup {"foo", "toString"}

\* values a caller assigns
SetValues == {"bar", ""}

NoCalls == [f \in SpecKeySet |-> 0]

----------------------------------------------------------------------------
(* Compute functions and handlers.  Each returns [t, ret, nc, thrown]: the *)
(* target after the call, the returned value, how often the compute        *)
(* function of each key ran during the call, and whether the call ended in *)
(* an exception (ret is then meaningless).                                 *)

Bump(nc, f) == [nc EXCEPT ![f] = @ + 1]

Plus(nc1, nc2) == [f \in SpecKeySet |-> nc1[f] + nc2[f]]

RECURSIVE get(_, _)

\* spec.name: details => `${details.first} ${details.last}`
name(t, from) ==
  [t |-> t, ret |-> from.first \o " " \o from.last, nc |-> NoCalls,
   thrown |-> FALSE]

\* spec.phone: details => details.mobile || details.home
phone(t, from) ==
  [t |-> t, ret |-> IF IsFalsy(from.mobile) THEN from.home ELSE from.mobile,
   nc |-> NoCalls, thrown |-> FALSE]

\* a function that throws
throw(t, from) ==
  [t |-> t, ret |-> Undefined, nc |-> NoCalls, thrown |-> TRUE]

\* spec.contactInfo: this.name + '\n' + this.phone, read through the proxy
contactInfo(t, from) ==
  LET r1 == get(t, "name")
      r2 == get(r1.t, "phone")
  IN IF r1.thrown THEN r1
     ELSE IF r2.thrown THEN [r2 EXCEPT !.nc = Plus(r1.nc, r2.nc)]
     ELSE [t |-> r2.t,
           ret |-> JSString(r1.ret) \o "\n" \o JSString(r2.ret),
           nc |-> Plus(r1.nc, r2.nc), thrown |-> FALSE]

\* the call with the target, not the proxy, as `this`: this.name and
\* this.phone are then undefined properties of the target
Call_TargetAsThis(t, prop) ==
  LET fn == Lookup(t.spec, prop)
      r == CASE fn = "name" -> name(t, t.source)
             [] fn = "phone" -> phone(t, t.source)
             [] fn = "contactInfo" ->
                  [t |-> t,
                   ret |-> JSString(Undefined) \o "\n" \o JSString(Undefined),
                   nc |-> NoCalls, thrown |-> FALSE]
             [] fn = "throw" -> throw(t, t.source)
  IN [r EXCEPT !.nc = Bump(@, prop)]

\* target.spec[prop].call(self, target.source)
Call(t, prop) ==
  LET fn == Lookup(t.spec, prop)
      r == CASE fn = "name" -> name(t, t.source)
             [] fn = "phone" -> phone(t, t.source)
             [] fn = "contactInfo" -> contactInfo(t, t.source)
             [] fn = "throw" -> throw(t, t.source)
  IN [r EXCEPT !.nc = Bump(@, prop)]

has(t, key) == In(t.store, key) \/ In(t.spec, key)

\* get that returns the computed value without storing it
get_NoStore(t, prop) ==
  IF prop \in t.deletedKeys
  THEN [t |-> t, ret |-> Undefined, nc |-> NoCalls, thrown |-> FALSE]
  ELSE IF ~In(t.store, prop) /\ In(t.spec, prop)
  THEN Call(t, prop)
  ELSE [t |-> t, ret |-> Lookup(t.store, prop), nc |-> NoCalls,
        thrown |-> FALSE]

\* get that computes whenever the key is in the spec, stored or not
get_NoMemo(t, prop) ==
  IF prop \in t.deletedKeys
  THEN [t |-> t, ret |-> Undefined, nc |-> NoCalls, thrown |-> FALSE]
  ELSE IF HasOwn(t.spec, prop)
  THEN LET r == Call(t, prop)
           t2 == [r.t EXCEPT !.store = Assign(@, prop, r.ret)]
       IN IF r.thrown THEN r
          ELSE [t |-> t2, ret |-> Lookup(t2.store, prop), nc |-> r.nc,
                thrown |-> FALSE]
  ELSE [t |-> t, ret |-> Lookup(t.store, prop), nc |-> NoCalls,
        thrown |-> FALSE]

\* get without the check of the deleted keys
get_IgnoreDeleted(t, prop) ==
  IF ~In(t.store, prop) /\ In(t.spec, prop)
  THEN LET r == Call(t, prop)
           t2 == [r.t EXCEPT !.store = Assign(@, prop, r.ret)]
       IN IF r.thrown THEN r
          ELSE [t |-> t2, ret |-> Lookup(t2.store, prop), nc |-> r.nc,
                thrown |-> FALSE]
  ELSE [t |-> t, ret |-> Lookup(t.store, prop), nc |-> NoCalls,
        thrown |-> FALSE]

\* get that catches the exception and stores undefined
get_CatchStore(t, prop) ==
  IF prop \in t.deletedKeys
  THEN [t |-> t, ret |-> Undefined, nc |-> NoCalls, thrown |-> FALSE]
  ELSE IF ~In(t.store, prop) /\ In(t.spec, prop)
  THEN LET r == Call(t, prop)
           t2 == [r.t EXCEPT !.store =
                    Assign(@, prop, IF r.thrown THEN Undefined ELSE r.ret)]
       IN [t |-> t2, ret |-> Lookup(t2.store, prop), nc |-> r.nc,
           thrown |-> FALSE]
  ELSE [t |-> t, ret |-> Lookup(t.store, prop), nc |-> NoCalls,
        thrown |-> FALSE]

get(t, prop) ==
  IF prop \in t.deletedKeys
  THEN [t |-> t, ret |-> Undefined, nc |-> NoCalls, thrown |-> FALSE]
  ELSE IF ~In(t.store, prop) /\ In(t.spec, prop)
  THEN LET r == Call(t, prop)
           t2 == [r.t EXCEPT !.store = Assign(@, prop, r.ret)]
       IN IF r.thrown THEN r
          ELSE [t |-> t2, ret |-> Lookup(t2.store, prop), nc |-> r.nc,
                thrown |-> FALSE]
  ELSE [t |-> t, ret |-> Lookup(t.store, prop), nc |-> NoCalls,
        thrown |-> FALSE]

\* set that leaves the key among the deleted keys
set_KeepDeleted(t, prop, value) ==
  [t |-> [t EXCEPT !.store = Assign(@, prop, value)], ret |-> value]

set(t, prop, value) ==
  [t |-> [t EXCEPT !.deletedKeys = @ \ {prop},
                   !.store = Assign(@, prop, value)],
   ret |-> value]

\* deleteProperty that only removes the stored value
deleteProperty_NoMark(t, prop) ==
  [t |-> [t EXCEPT !.store = DeleteOwn(@, prop)], ret |-> TRUE]

\* deleteProperty that marks the key and keeps the stored value
deleteProperty_KeepStore(t, prop) ==
  [t |-> [t EXCEPT !.deletedKeys = @ \cup {prop}], ret |-> TRUE]

\* deleteProperty that empties the store
deleteProperty_ClearStore(t, prop) ==
  [t |-> [t EXCEPT !.store = <<>>, !.deletedKeys = @ \cup {prop}],
   ret |-> TRUE]

deleteProperty(t, prop) ==
  [t |-> [t EXCEPT !.store = DeleteOwn(@, prop),
                   !.deletedKeys = @ \cup {prop}],
   ret |-> TRUE]

\* ownKeys without the Set that removes repeated keys
ownKeys_NoDedupe(t) ==
  FilterOut(ObjectKeys(t.spec) \o ObjectKeys(t.store), t.deletedKeys)

ownKeys(t) ==
  LET allKeys == ObjectKeys(t.spec) \o ObjectKeys(t.store)
  IN FilterOut(Dedupe(allKeys), t.deletedKeys)

\* a property descriptor; defined = FALSE is the undefined result
NoDescriptor ==
  [defined |-> FALSE, hasValue |-> FALSE, value |-> Undefined,
   enumerable |-> FALSE, writable |-> FALSE, configurable |-> FALSE]

\* Reflect.getOwnPropertyDescriptor on a plain object
ReflectGetOwnPropertyDescriptor(obj, prop) ==
  IF HasOwn(obj, prop)
  THEN [defined |-> TRUE, hasValue |-> TRUE, value |-> Lookup(obj, prop),
        enumerable |-> TRUE, writable |-> TRUE, configurable |-> TRUE]
  ELSE NoDescriptor

\* getOwnPropertyDescriptor whose synthetic descriptor omits enumerable
getOwnPropertyDescriptor_NotEnumerable(t, prop) ==
  IF In(t.store, prop)
  THEN ReflectGetOwnPropertyDescriptor(t.store, prop)
  ELSE IF In(t.spec, prop)
  THEN [defined |-> TRUE, hasValue |-> FALSE, value |-> Undefined,
        enumerable |-> FALSE, writable |-> TRUE, configurable |-> TRUE]
  ELSE NoDescriptor

\* getOwnPropertyDescriptor that computes the value of a spec key
getOwnPropertyDescriptor_Computes(t, prop) ==
  IF In(t.store, prop)
  THEN ReflectGetOwnPropertyDescriptor(t.store, prop)
  ELSE IF In(t.spec, prop)
  THEN [defined |-> TRUE, hasValue |-> TRUE, value |-> Call(t, prop).ret,
        enumerable |-> TRUE, writable |-> TRUE, configurable |-> TRUE]
  ELSE NoDescriptor

\* getOwnPropertyDescriptor without the branch for spec keys
getOwnPropertyDescriptor_StoreOnly(t, prop) ==
  IF In(t.store, prop)
  THEN ReflectGetOwnPropertyDescriptor(t.store, prop)
  ELSE NoDescriptor

getOwnPropertyDescriptor(t, prop) ==
  IF In(t.store, prop)
  THEN ReflectGetOwnPropertyDescriptor(t.store, prop)
  ELSE IF In(t.spec, prop)
  THEN [defined |-> TRUE, hasValue |-> FALSE, value |-> Undefined,
        enumerable |-> TRUE, writable |-> TRUE, configurable |-> TRUE]
  ELSE NoDescriptor

\* the identity of a newly allocated object: one that no object in use has
Fresh(used) == CHOOSE id \in 1..(Cardinality(used) + 1) : id \notin used

\* proxyFactory that fills the store at construction
proxyFactory_Eager(sp, source, used) ==
  LET t0 == [spec |-> sp, source |-> source, store |-> <<>>,
             deletedKeys |-> {},
             refs |-> [store |-> Fresh(used),
                       deletedKeys |-> Fresh(used \cup {Fresh(used)})]]
      r1 == get(t0, "name")
      r2 == get(r1.t, "phone")
  IN [t |-> r2.t, nc |-> Plus(r1.nc, r2.nc)]

\* proxyFactory whose records all use one store object
proxyFactory_SharedStore(sp, source, used) ==
  [t |-> [spec |-> sp, source |-> source, store |-> <<>>, deletedKeys |-> {},
          refs |-> [store |-> 1,
                    deletedKeys |-> Fresh(used \cup {1})]],
   nc |-> NoCalls]

\* the target holds the contents of its store and deletedKeys objects;
\* refs holds their identities, allocated by `{}` and `new Set()`
proxyFactory(sp, source, used) ==
  [t |-> [spec |-> sp, source |-> source, store |-> <<>>, deletedKeys |-> {},
          refs |-> [store |-> Fresh(used),
                    deletedKeys |-> Fresh(used \cup {Fresh(used)})]],
   nc |-> NoCalls]

\* mapping(spec): the constructor closure (source) => proxyFactory(spec, source)
mapping(sp, source, used) == proxyFactory(sp, source, used)

\* JSON.stringify(person): the own enumerable keys (ownKeys, then a
\* descriptor per key), then a read of each key in that order
RECURSIVE EnumerableKeys(_, _)
EnumerableKeys(t, keys) ==
  IF keys = <<>> THEN <<>>
  ELSE LET d == getOwnPropertyDescriptor(t, Head(keys))
           rest == EnumerableKeys(t, Tail(keys))
       IN IF d.defined /\ d.enumerable THEN <<Head(keys)>> \o rest ELSE rest

RECURSIVE ReadEach(_, _, _, _)
ReadEach(t, keys, entries, nc) ==
  IF keys = <<>>
  THEN [t |-> t, entries |-> entries, nc |-> nc, thrown |-> FALSE]
  ELSE LET r == get(t, Head(keys))
       IN IF r.thrown
          THEN [t |-> r.t, entries |-> <<>>, nc |-> Plus(nc, r.nc),
                thrown |-> TRUE]
          ELSE ReadEach(r.t, Tail(keys),
                        Append(entries, [key |-> Head(keys), value |-> r.ret]),
                        Plus(nc, r.nc))

serialize(t) == ReadEach(t, EnumerableKeys(t, ownKeys(t)), <<>>, NoCalls)

----------------------------------------------------------------------------
(* State *)

\* the closure before it is called: spec bound, no record allocated yet
NoSource == [first |-> "", last |-> "", mobile |-> "", home |-> ""]

NoTarget == [spec |-> spec, source |-> NoSource, store |-> <<>>,
             deletedKeys |-> {}, refs |-> [store |-> 0, deletedKeys |-> 0]]

\* the identities of the objects the records hold
Used == {target.refs.store, target.refs.deletedKeys,
         other.refs.store, other.refs.deletedKeys}

\* record o after record t was written: an object both hold has one content
Sync(o, t) ==
  [o EXCEPT !.store = IF o.refs.store = t.refs.store THEN t.store ELSE @,
            !.deletedKeys = IF o.refs.deletedKeys = t.refs.deletedKeys
                            THEN t.deletedKeys ELSE @]

\* Unset / Materialized / Tombstoned, per key
StateOf(t, key) ==
  IF key \in t.deletedKeys THEN "Tombstoned"
  ELSE IF HasOwn(t.store, key) THEN "Materialized"
  ELSE "Unset"

\* last: the latest operation on the record and what the caller observed
\* (prev: the operation before it):
\* op/key/arg identify it, pre is the key's state before it, ret a read or
\* written value, ok a boolean result, keys/entries an enumeration,
\* desc a descriptor, nc the compute functions it ran, thrown whether it
\* ended in an exception
NoOp ==
  [op |-> "mapping", key |-> "", arg |-> Undefined, pre |-> "",
   ret |-> Undefined, ok |-> TRUE, keys |-> <<>>, entries |-> <<>>,
   desc |-> NoDescriptor, nc |-> NoCalls, thrown |-> FALSE]

Observed(op, key, pre) == [NoOp EXCEPT !.op = op, !.key = key, !.pre = pre]

Allocated == last.op # "mapping"

\* a record exists and the caller has operations left
Ready == Allocated /\ ops < MaxOps /\ stack = <<>>

WithinCalls(nc) == \A f \in SpecKeySet : calls[f] + nc[f] <= MaxCalls

Init ==
  /\ target = NoTarget
  /\ other = NoTarget
  /\ calls = NoCalls
  /\ since = NoCalls
  /\ written = {}
  /\ last = NoOp
  /\ prev = NoOp
  /\ ops = 0
  /\ stack = <<>>

\* person = toPerson(sourceObject)
Construct(sp, source) ==
  LET r == mapping(sp, source, Used)
  IN /\ ~Allocated
     /\ target' = r.t
     /\ UNCHANGED other
     /\ calls' = Plus(calls, r.nc)
     /\ since' = Plus(since, r.nc)
     /\ last' = [Observed("construct", "", "") EXCEPT !.nc = r.nc]
     /\ prev' = last
     /\ UNCHANGED <<written, ops, stack>>

\* key in person
Has(key) ==
  /\ Ready
  /\ ops' = ops + 1
  /\ prev' = last
  /\ last' = [Observed("has", key, StateOf(target, key))
                EXCEPT !.ok = has(target, key)]
  /\ UNCHANGED <<target, other, calls, since, written, stack>>

\* person[prop]
Get(prop) ==
  LET r == get(target, prop)
  IN /\ Ready
     /\ ops' = ops + 1
     /\ prev' = last
     /\ WithinCalls(r.nc)
     /\ target' = r.t
     /\ other' = Sync(other, r.t)
     /\ calls' = Plus(calls, r.nc)
     /\ since' = Plus(since, r.nc)
     /\ last' = [Observed("get", prop, StateOf(target, prop))
                   EXCEPT !.ret = r.ret, !.nc = r.nc, !.thrown = r.thrown]
     /\ UNCHANGED <<written, stack>>

\* person[prop] = value; the Proxy reports ToBoolean of the trap's result
Set(prop, value) ==
  LET r == set(target, prop, value)
  IN /\ Ready
     /\ ops' = ops + 1
     /\ prev' = last
     /\ target' = r.t
     /\ other' = Sync(other, r.t)
     /\ last' = [Observed("set", prop, StateOf(target, prop))
                   EXCEPT !.arg = value, !.ret = r.ret, !.ok = ~IsFalsy(r.ret)]
     /\ written' = written \cup {prop}
     /\ UNCHANGED <<calls, since, stack>>

\* delete person[prop]
Delete(prop) ==
  LET r == deleteProperty(target, prop)
  IN /\ Ready
     /\ ops' = ops + 1
     /\ prev' = last
     /\ target' = r.t
     /\ other' = Sync(other, r.t)
     /\ last' = [Observed("delete", prop, StateOf(target, prop))
                   EXCEPT !.ok = r.ret]
     /\ since' = [f \in SpecKeySet |-> IF f = prop THEN 0 ELSE since[f]]
     /\ UNCHANGED <<calls, written, stack>>

\* Reflect.ownKeys(person)
Enumerate ==
  /\ Ready
  /\ ops' = ops + 1
  /\ prev' = last
  /\ last' = [Observed("enumerate", "", "") EXCEPT !.keys = ownKeys(target)]
  /\ UNCHANGED <<target, other, calls, since, written, stack>>

\* Reflect.getOwnPropertyDescriptor(person, prop)
Describe(prop) ==
  /\ Ready
  /\ ops' = ops + 1
  /\ prev' = last
  /\ last' = [Observed("describe", prop, StateOf(target, prop))
                EXCEPT !.desc = getOwnPropertyDescriptor(target, prop)]
  /\ UNCHANGED <<target, other, calls, since, written, stack>>

\* JSON.stringify(person)
Serialize ==
  LET r == serialize(target)
  IN /\ Ready
     /\ ops' = ops + 1
     /\ prev' = last
     /\ WithinCalls(r.nc)
     /\ target' = r.t
     /\ other' = Sync(other, r.t)
     /\ calls' = Plus(calls, r.nc)
     /\ since' = Plus(since, r.nc)
     /\ last' = [Observed("serialize", "", "")
                   EXCEPT !.entries = r.entries, !.nc = r.nc,
                          !.thrown = r.thrown]
     /\ UNCHANGED <<written, stack>>

Next ==
  \/ \E source \in Sources : Construct(spec, source)
  \/ \E key \in Keys : Has(key)
  \/ \E prop \in Keys : Get(prop)
  \/ \E prop \in Keys, value \in SetValues : Set(prop, value)
  \/ \E prop \in Keys : Delete(prop)
  \/ Enumerate
  \/ \E prop \in Keys : Describe(prop)
  \/ Serialize

Spec == Init /\ [][Next]_vars

\* records built from a spec with a throwing function
NextThrow ==
  \/ \E sp \in ThrowingSpecs, source \in Sources : Construct(sp, source)
  \/ \E key \in Keys : Has(key)
  \/ \E prop \in Keys : Get(prop)
  \/ \E prop \in Keys, value \in SetValues : Set(prop, value)
  \/ \E prop \in Keys : Delete(prop)
  \/ Enumerate
  \/ \E prop \in Keys : Describe(prop)
  \/ Serialize

SpecThrow == Init /\ [][NextThrow]_vars

\* keys the caller uses when it works with two records
TwoKeys == {"contactInfo", "foo"}

\* a second record: other = toPerson(sourceObject)
ConstructOther(source) ==
  LET r == mapping(target.spec, source, Used)
  IN /\ Allocated
     /\ other = NoTarget
     /\ other' = r.t
     /\ calls' = Plus(calls, r.nc)
     /\ since' = Plus(since, r.nc)
     /\ last' = [Observed("construct", "", "") EXCEPT !.nc = r.nc]
     /\ prev' = last
     /\ UNCHANGED <<target, written, ops, stack>>

\* the caller turns to its other record
Switch ==
  /\ other # NoTarget
  /\ last.op # "switch"
  /\ target' = other
  /\ other' = target
  /\ last' = Observed("switch", "", "")
  /\ prev' = last
  /\ UNCHANGED <<calls, since, written, ops, stack>>

NextTwo ==
  \/ \E source \in Sources : Construct(spec, source)
  \/ \E source \in Sources : ConstructOther(source)
  \/ Switch
  \/ \E key \in TwoKeys : Has(key)
  \/ \E prop \in TwoKeys : Get(prop)
  \/ \E prop \in TwoKeys, value \in SetValues : Set(prop, value)
  \/ \E prop \in TwoKeys : Delete(prop)
  \/ Enumerate
  \/ \E prop \in TwoKeys : Describe(prop)
  \/ Serialize

SpecTwo == Init /\ [][NextTwo]_vars

----------------------------------------------------------------------------
(* A read taken one call at a time (SpecDeep) *)

\* a spec function that returns a sibling: function () { return this[g] }
This(g) == "this." \o g

\* the spec with the function at f replaced by one that returns this[g]
Forwarding(f, g) ==
  [i \in 1..Len(spec) |->
     IF spec[i].key = f THEN [key |-> f, value |-> This(g)] ELSE spec[i]]

DeepSpecs ==
  {spec, Forwarding("name", "phone"), Forwarding("phone", "phone"),
   Forwarding("phone", "contactInfo")}

\* the keys a spec function reads through the proxy, in the order it reads
ThisReads(fn) ==
  IF fn = "contactInfo" THEN <<"name", "phone">>
  ELSE IF \E g \in SpecKeySet : fn = This(g)
  THEN <<CHOOSE g \in SpecKeySet : fn = This(g)>>
  ELSE <<>>

\* what a spec function returns once it has read vals through the proxy
Result(fn, from, vals) ==
  CASE fn = "name" -> name(NoTarget, from).ret
    [] fn = "phone" -> phone(NoTarget, from).ret
    [] fn = "contactInfo" -> JSString(vals[1]) \o "\n" \o JSString(vals[2])
    [] OTHER -> vals[1]

\* f's function reads g
ReadsKey(sp, f, g) == g \in SeqToSet(ThisReads(Lookup(sp, f)))

\* g is read, directly or through siblings, when f is computed
DependsOn(sp, f, g) ==
  \/ ReadsKey(sp, f, g)
  \/ \E h \in SpecKeySet : ReadsKey(sp, f, h) /\ ReadsKey(sp, h, g)
  \/ \E h, k \in SpecKeySet :
       ReadsKey(sp, f, h) /\ ReadsKey(sp, h, k) /\ ReadsKey(sp, k, g)

Acyclic(sp) == \A f \in SpecKeySet : ~DependsOn(sp, f, f)

\* the branch of get taken for prop, with a guard against keys whose
\* function is running
Branch_Guarded(t, prop) ==
  IF prop \in t.deletedKeys THEN "deleted"
  ELSE IF \E i \in 1..Len(stack) : stack[i].prop = prop THEN "stored"
  ELSE IF ~In(t.store, prop) /\ In(t.spec, prop) THEN "call"
  ELSE "stored"

\* the branch of get taken for prop
Branch(t, prop) ==
  IF prop \in t.deletedKeys THEN "deleted"
  ELSE IF ~In(t.store, prop) /\ In(t.spec, prop) THEN "call"
  ELSE "stored"

\* a call of prop's function that has read nothing yet
Frame(prop) == [prop |-> prop, vals |-> <<>>]

Top == stack[Len(stack)]

\* the keys the running function has yet to read
Pending ==
  LET reads == ThisReads(Lookup(target.spec, Top.prop))
  IN SubSeq(reads, Len(Top.vals) + 1, Len(reads))

\* the running function receives the value v of the key it read
Receive(v) == [stack EXCEPT ![Len(stack)].vals = Append(@, v)]

\* person[prop], up to the call of prop's function
Enter(prop) ==
  LET b == Branch(target, prop)
      called == IF b = "call" THEN Bump(NoCalls, prop) ELSE NoCalls
  IN /\ Ready
     /\ ops' = ops + 1
     /\ prev' = last
     /\ last' = [Observed("get", prop, StateOf(target, prop))
                   EXCEPT !.ret = IF b = "stored"
                                  THEN Lookup(target.store, prop)
                                  ELSE Undefined,
                          !.nc = called]
     /\ stack' = IF b = "call" THEN <<Frame(prop)>> ELSE <<>>
     /\ calls' = Plus(calls, called)
     /\ since' = Plus(since, called)
     /\ UNCHANGED <<target, other, written>>

\* the running function reads this[g]
Step ==
  /\ stack # <<>>
  /\ Pending # <<>>
  /\ LET g == Head(Pending)
         b == Branch(target, g)
         called == IF b = "call" THEN Bump(NoCalls, g) ELSE NoCalls
     IN /\ b = "call" => Len(stack) < MaxDepth
        /\ stack' = CASE b = "deleted" -> Receive(Undefined)
                      [] b = "stored" -> Receive(Lookup(target.store, g))
                      [] b = "call" -> Append(stack, Frame(g))
        /\ calls' = Plus(calls, called)
        /\ since' = Plus(since, called)
        /\ last' = [last EXCEPT !.nc = Plus(@, called)]
  /\ UNCHANGED <<target, other, written, prev, ops>>

\* the running function returns: its value is stored and handed to its
\* reader
Return ==
  /\ stack # <<>>
  /\ Pending = <<>>
  /\ LET v == Result(Lookup(target.spec, Top.prop), target.source, Top.vals)
         rest == SubSeq(stack, 1, Len(stack) - 1)
     IN /\ target' = [target EXCEPT !.store = Assign(@, Top.prop, v)]
        /\ stack' = IF rest = <<>> THEN rest
                    ELSE [rest EXCEPT ![Len(rest)].vals = Append(@, v)]
        /\ last' = IF rest = <<>> THEN [last EXCEPT !.ret = v] ELSE last
  /\ UNCHANGED <<other, calls, since, written, prev, ops>>

NextDeep ==
  \/ \E sp \in DeepSpecs, source \in Sources : Construct(sp, source)
  \/ \E prop \in SpecKeySet : Enter(prop)
  \/ Step
  \/ Return
  \/ \E prop \in SpecKeySet : Set(prop, "bar")
  \/ \E prop \in SpecKeySet : Delete(prop)

\* a function that was called runs on: execution is synchronous and
\* single-threaded
SpecDeep == Init /\ [][NextDeep]_vars /\ WF_vars(Step) /\ WF_vars(Return)

----------------------------------------------------------------------------
(* Properties *)

\* the sibling keys a spec function reads through `this`
Reads(f) == IF f = "contactInfo" THEN {"name", "phone"} ELSE {}

\* C1 (memoization): when get(f) on an Unset spec key f is directly
\* followed by another get(f), f's compute function runs exactly once over
\* the two reads and both return the same value.
C1_Memoization ==
  \A f \in SpecKeySet :
    (/\ prev.op = "get" /\ prev.key = f /\ prev.pre = "Unset"
     /\ last.op = "get" /\ last.key = f)
    => /\ prev.nc[f] + last.nc[f] = 1
       /\ last.ret = prev.ret

C1_Witness ==
  /\ prev.op = "get" /\ prev.key = "contactInfo" /\ prev.pre = "Unset"
  /\ last.op = "get" /\ last.key = "contactInfo"
  /\ last.ret = "Lando Calrissian\n555-555-5555"
  /\ calls = [f \in SpecKeySet |-> 1]

\* C2 (memoization over traces): between two deletions of a spec key f
\* (and before the first one) f's compute function runs at most once,
\* whatever operations are performed.
C2_AtMostOncePerDeletion == \A f \in SpecKeySet : since[f] <= 1

C2_Witness ==
  /\ calls["name"] = 1 /\ since["name"] = 0
  /\ prev.op = "delete" /\ prev.key = "name" /\ prev.pre = "Materialized"
  /\ last.op = "get" /\ last.key = "contactInfo"

\* C3 (laziness): constructing a record runs no compute function, and f's
\* compute function runs only in a read of f, in a read of a key whose
\* compute function reads f, or in a serialization that reads such a key; has, set, delete, enumerate and describe run none.
C3_Laziness ==
  [][\A f \in SpecKeySet :
       calls'[f] # calls[f] =>
         \/ last'.op = "get" /\ (last'.key = f \/ f \in Reads(last'.key))
         \/ /\ last'.op = "serialize"
            /\ \E i \in 1..Len(last'.entries) :
                  \/ last'.entries[i].key = f
                  \/ f \in Reads(last'.entries[i].key)]_vars

C3_Witness ==
  /\ calls = [f \in SpecKeySet |-> IF f = "phone" THEN 1 ELSE 0]
  /\ prev.op = "construct"
  /\ last.op = "get" /\ last.key = "phone"

\* C4 (override precedence): a read of f directly after set(f, v) returns v
\* and runs no compute function, whether f was Unset, Materialized or
\* Tombstoned before the set and whether or not f is a spec key.
C4_OverridePrecedence ==
  \A f \in Keys :
    (/\ prev.op = "set" /\ prev.key = f
     /\ last.op = "get" /\ last.key = f)
    => /\ last.ret = prev.arg
       /\ last.nc = NoCalls

C4_Witness ==
  /\ prev.op = "set" /\ prev.key = "name" /\ prev.pre = "Tombstoned"
  /\ prev.arg = "bar"
  /\ last.op = "get" /\ last.key = "name" /\ last.ret = "bar"
  /\ calls["name"] = 0

\* C5 (delete suppression): delete(f) tombstones f, only set(f, .) lifts
\* the tombstone, and every read of a tombstoned f returns undefined and
\* leaves the record as it was.
C5_DeleteSuppression ==
  [][\A f \in Keys :
       /\ (last'.op = "delete" /\ last'.key = f /\ ops' # ops)
            => f \in target'.deletedKeys
       /\ (f \in target.deletedKeys /\ ~(last'.op = "set" /\ last'.key = f))
            => f \in target'.deletedKeys
       /\ (f \in target.deletedKeys /\ last'.op = "get" /\ last'.key = f
           /\ ops' # ops)
            => /\ last'.ret = Undefined
               /\ target' = target
               /\ calls' = calls]_vars

C5_Witness ==
  /\ prev.op = "delete" /\ prev.key = "name" /\ prev.pre = "Materialized"
  /\ last.op = "get" /\ last.key = "name" /\ last.ret = Undefined
  /\ calls["name"] = 1
  /\ ~HasOwn(target.store, "name")

\* C6 (has): `key in record` is true exactly when the key is stored or is
\* a spec key, whatever the deleted keys are.
C6_HasIffStoredOrSpec ==
  last.op = "has" =>
    last.ok = (HasOwn(target.store, last.key) \/ last.key \in SpecKeySet)

\* C7 (absent field): for a name that is no spec key and was never
\* assigned, has is false, a read returns undefined and there is no
\* descriptor.
C7_AbsentField ==
  \A k \in Keys \ (SpecKeySet \cup written) :
    last.key = k =>
      /\ last.op = "has" => ~last.ok
      /\ last.op = "get" => last.ret = Undefined
      /\ last.op = "describe" => ~last.desc.defined

\* the keys a record shows: spec keys and stored keys, minus deleted ones
Shown(t) ==
  {k \in Keys : (k \in SpecKeySet \/ HasOwn(t.store, k))
                /\ k \notin t.deletedKeys}

\* C8 (enumeration): the enumerated keys are, without repetition, the spec
\* keys and the assigned keys that are not currently tombstoned; the spec
\* keys come first, in declaration order; a deleted key that is assigned
\* again is enumerated again.
C8_Enumeration ==
  last.op = "enumerate" =>
    LET ks == last.keys
    IN /\ SeqToSet(ks) =
            {k \in Keys : (k \in SpecKeySet \/ k \in written)
                          /\ StateOf(target, k) # "Tombstoned"}
       /\ Cardinality(SeqToSet(ks)) = Len(ks)
       /\ \A i, j \in 1..Len(ks) :
            (i < j /\ ks[j] \in SpecKeySet) => ks[i] \in SpecKeySet
       /\ FilterOut(ks, Keys \ SpecKeySet)
            = FilterOut(SpecKeys, target.deletedKeys)
       /\ (prev.op = "set" /\ prev.pre = "Tombstoned")
            => prev.key \in SeqToSet(ks)

C8_Witness ==
  /\ prev.op = "set" /\ prev.key = "foo" /\ prev.pre = "Tombstoned"
  /\ last.op = "enumerate"
  /\ last.keys = <<"name", "phone", "contactInfo", "foo">>

\* what a read of key k returns in a state where it computes nothing
Shows(t, k) == IF k \in t.deletedKeys THEN Undefined ELSE Lookup(t.store, k)

\* C9 (serialization): a serialization lists exactly the enumerated keys,
\* in order, each with the value a read of it returns (expando keys
\* included, tombstoned keys omitted); it runs the compute function of every
\* Unset spec key exactly once and no other; afterwards every spec key that
\* is not tombstoned is stored, and a serialization directly after it runs
\* no compute function.
C9_Serialization ==
  [][(last'.op = "serialize" /\ ops' # ops) =>
       LET es == last'.entries
       IN /\ [i \in 1..Len(es) |-> es[i].key] = ownKeys(target)
          /\ {es[i].key : i \in 1..Len(es)} = Shown(target)
          /\ \A i \in 1..Len(es) : es[i].value = Shows(target', es[i].key)
          /\ \A f \in SpecKeySet :
               calls'[f] - calls[f] =
                 IF StateOf(target, f) = "Unset" THEN 1 ELSE 0
          /\ \A f \in SpecKeySet :
               f \notin target'.deletedKeys => HasOwn(target'.store, f)
          /\ target'.deletedKeys = target.deletedKeys
          /\ last.op = "serialize" => calls' = calls /\ target' = target]_vars

C9_Witness ==
  /\ prev.op = "serialize" /\ prev.nc = [f \in SpecKeySet |-> 1]
  /\ last.op = "serialize" /\ last.nc = NoCalls
  /\ Len(last.entries) = 4
  /\ last.entries[4] = [key |-> "foo", value |-> "bar"]
  /\ last.entries[3].value = "Lando Calrissian\n555-123-1234"

\* C10 (self-reference): a read of contactInfo that computes it returns
\* what reads of name and phone return, joined by a newline; name and phone
\* are then stored unless tombstoned; and over all reads, direct or nested,
\* name and phone are each computed at most once.
C10_SelfReference ==
  [][/\ (/\ last'.op = "get" /\ last'.key = "contactInfo"
         /\ last'.pre = "Unset" /\ ops' # ops)
        => /\ last'.ret = JSString(Shows(target', "name")) \o "\n"
                            \o JSString(Shows(target', "phone"))
           /\ Shows(target', "contactInfo") = last'.ret
           /\ \A f \in Reads("contactInfo") :
                /\ f \notin target.deletedKeys => HasOwn(target'.store, f)
                /\ calls'[f] - calls[f] =
                     IF StateOf(target, f) = "Unset" THEN 1 ELSE 0
     /\ \A f \in Reads("contactInfo") : calls'[f] <= 1]_vars

C10_Witness ==
  /\ prev.op = "get" /\ prev.key = "name" /\ prev.nc["name"] = 1
  /\ last.op = "get" /\ last.key = "contactInfo" /\ last.pre = "Unset"
  /\ last.ret = "Lando Calrissian\n555-555-5555"
  /\ calls = [f \in SpecKeySet |-> 1]

\* C12 (set): an assignment always succeeds, for every key and value;
\* afterwards the key is not tombstoned, the store holds the value under
\* it, and the value is what the handler returned.
C12_SetAlwaysSucceeds ==
  last.op = "set" =>
    /\ last.ok
    /\ ~last.thrown
    /\ last.key \notin target.deletedKeys
    /\ HasOwn(target.store, last.key)
    /\ Lookup(target.store, last.key) = last.arg
    /\ last.ret = last.arg

\* what a caller can observe of a record without changing it
Views(t) ==
  [has |-> [k \in Keys |-> has(t, k)],
   get |-> [k \in Keys |-> get(t, k).ret],
   keys |-> ownKeys(t),
   desc |-> [k \in Keys |-> getOwnPropertyDescriptor(t, k)]]

\* f was memoized by a read, then deleted, then read
DeletedThenRead(f) ==
  /\ prev.op = "delete" /\ prev.key = f /\ prev.pre = "Materialized"
  /\ calls[f] >= 1 /\ f \notin written
  /\ last.op = "get" /\ last.key = f

\* C14 as stated: a read of a spec key f after its memoized value was
\* deleted runs f's compute function again.
C14_DeletedKeyRecomputed ==
  \A f \in SpecKeySet : DeletedThenRead(f) => last.nc[f] = 1

\* C14 (amended): deletion clears the memoized value and caches f as
\* absent: a read of f after the delete, with no set in between, returns
\* undefined, runs no compute function and leaves f tombstoned and unstored.
C14_DeletedKeyStaysAbsent ==
  \A f \in SpecKeySet :
    DeletedThenRead(f) =>
      /\ last.ret = Undefined
      /\ last.nc = NoCalls
      /\ calls[f] = 1
      /\ StateOf(target, f) = "Tombstoned"
      /\ ~HasOwn(target.store, f)

C14_Witness ==
  /\ DeletedThenRead("phone")
  /\ last.ret = Undefined
  /\ calls = [f \in SpecKeySet |-> IF f = "phone" THEN 1 ELSE 0]

\* the operation just performed (in the primed state) on key k
Did(op, k) == last'.op = op /\ last'.key = k

\* C15 as stated: a key changes state only Unset -> Materialized (read of
\* a spec key, or write), Materialized -> Tombstoned (delete) and
\* Tombstoned -> Materialized (write), and never returns to Unset.
C15_ThreeTransitions ==
  [][\A k \in Keys :
       LET from == StateOf(target, k)
           to == StateOf(target', k)
       IN from # to =>
            \/ /\ from = "Unset" /\ to = "Materialized"
               /\ \/ k \in SpecKeySet /\ last'.op \in {"get", "serialize"}
                  \/ Did("set", k)
            \/ from = "Materialized" /\ to = "Tombstoned" /\ Did("delete", k)
            \/ from = "Tombstoned" /\ to = "Materialized" /\ Did("set", k)]_vars

\* C15 (amended): as stated, with one more transition: Unset -> Tombstoned
\* (delete of a key that was never read or written).
C15_FourTransitions ==
  [][\A k \in Keys :
       LET from == StateOf(target, k)
           to == StateOf(target', k)
       IN from # to =>
            \/ /\ from = "Unset" /\ to = "Materialized"
               /\ \/ k \in SpecKeySet /\ last'.op \in {"get", "serialize"}
                  \/ Did("set", k)
            \/ from = "Unset" /\ to = "Tombstoned" /\ Did("delete", k)
            \/ from = "Materialized" /\ to = "Tombstoned" /\ Did("delete", k)
            \/ from = "Tombstoned" /\ to = "Materialized" /\ Did("set", k)]_vars

C15_Witness ==
  /\ prev.op = "delete" /\ prev.key = "name" /\ prev.pre = "Unset"
  /\ last.op = "set" /\ last.key = "name" /\ last.pre = "Tombstoned"
  /\ StateOf(target, "name") = "Materialized"
  /\ StateOf(target, "phone") = "Materialized"

\* C16 (describe): for a stored key the descriptor carries the stored
\* value and is enumerable, writable and configurable; for a spec key that
\* is not stored, tombstoned or not, it is enumerable, writable and
\* configurable without a value, and the key is not computed or stored by
\* describing it; for any other key there is no descriptor.
C16_Describe ==
  [][(last'.op = "describe" /\ ops' # ops) =>
       LET k == last'.key
           d == last'.desc
       IN /\ HasOwn(target.store, k) =>
               d = [defined |-> TRUE, hasValue |-> TRUE,
                    value |-> Lookup(target.store, k), enumerable |-> TRUE,
                    writable |-> TRUE, configurable |-> TRUE]
          /\ (~HasOwn(target.store, k) /\ k \in SpecKeySet) =>
               /\ d.defined /\ ~d.hasValue /\ d.value = Undefined
               /\ d.enumerable /\ d.writable /\ d.configurable
          /\ (~HasOwn(target.store, k) /\ k \notin SpecKeySet) => ~d.defined
          /\ target' = target
          /\ calls' = calls]_vars

C16_Witness ==
  /\ prev.op = "delete" /\ prev.key = "name"
  /\ last.op = "describe" /\ last.key = "name" /\ last.pre = "Tombstoned"
  /\ last.desc.defined /\ ~last.desc.hasValue
  /\ calls["name"] = 0

\* C17 (delete): a delete succeeds; afterwards the key is not stored and
\* is tombstoned, every other key has the stored value and the tombstone
\* it had, the stored keys keep their order, and a second delete of the
\* same key directly after it changes nothing.
C17_Delete ==
  [][\A k \in Keys :
       (Did("delete", k) /\ ops' # ops) =>
         /\ last'.ok /\ ~last'.thrown
         /\ ~HasOwn(target'.store, k)
         /\ k \in target'.deletedKeys
         /\ \A j \in Keys \ {k} :
              /\ HasOwn(target'.store, j) = HasOwn(target.store, j)
              /\ Lookup(target'.store, j) = Lookup(target.store, j)
              /\ (j \in target'.deletedKeys) = (j \in target.deletedKeys)
         /\ ObjectKeys(target'.store)
              = FilterOut(ObjectKeys(target.store), {k})
         /\ (last.op = "delete" /\ last.key = k) =>
              /\ target' = target
              /\ Views(target') = Views(target)]_vars

C17_Witness ==
  /\ prev.op = "delete" /\ prev.key = "foo" /\ prev.pre = "Materialized"
  /\ last.op = "delete" /\ last.key = "foo" /\ last.pre = "Tombstoned"
  /\ last.ok

\* C19 (implicit): no key is stored and tombstoned at once.
C19_StoredXorTombstoned ==
  \A k \in Keys : ~(HasOwn(target.store, k) /\ k \in target.deletedKeys)

C19_Witness ==
  /\ last.op = "set" /\ last.pre = "Tombstoned"
  /\ HasOwn(target.store, last.key)
  /\ target.deletedKeys # {}

\* C20 (implicit): every enumerated key is reported by has and has a
\* descriptor; a key that is reported by has and has a descriptor but is
\* not enumerated is a tombstoned spec key.
C20_ViewsAgree ==
  LET enumerated == SeqToSet(ownKeys(target))
  IN Allocated =>
       /\ \A k \in enumerated :
            has(target, k) /\ getOwnPropertyDescriptor(target, k).defined
       /\ \A k \in Keys \ enumerated :
            (has(target, k) /\ getOwnPropertyDescriptor(target, k).defined)
              => (k \in SpecKeySet /\ k \in target.deletedKeys)

C20_Witness ==
  /\ "name" \in target.deletedKeys
  /\ has(target, "name")
  /\ getOwnPropertyDescriptor(target, "name").defined
  /\ SeqToSet(ownKeys(target)) = {"phone", "contactInfo", "foo"}
  /\ last.op = "enumerate"

----------------------------------------------------------------------------
(* Properties of records whose spec has a throwing function (SpecThrow) *)

\* the function stored in the spec at an Unset key f throws, or f is
\* contactInfo and a sibling it reads is Unset with a throwing function
Throws(t, f) ==
  /\ StateOf(t, f) = "Unset"
  /\ \/ Lookup(t.spec, f) = "throw"
     \/ \E g \in Reads(f) :
          StateOf(t, g) = "Unset" /\ Lookup(t.spec, g) = "throw"

\* C11 as stated: a read of f in which f's compute function raises leaves
\* store and tombstones unchanged.
C11_FailureChangesNothing ==
  [][(last'.op = "get" /\ last'.thrown /\ ops' # ops) => target' = target]_vars

\* C11 (amended): a read of f whose compute function raises (itself or in
\* a sibling read) ends in that exception; tombstones are unchanged, f
\* stays Unset, stored entries keep their values and the only keys added
\* are siblings that f's compute function read before the failure; f's
\* compute function has run once more, and it runs again in a read of f
\* directly after the failed one.
C11_FailureDoesNotPoison ==
  [][\A f \in SpecKeySet :
       (last'.op = "get" /\ last'.key = f /\ ops' # ops) =>
         /\ Throws(target, f) => last'.thrown
         /\ last'.thrown =>
              /\ target'.deletedKeys = target.deletedKeys
              /\ StateOf(target', f) = "Unset"
              /\ \A k \in Keys :
                   /\ HasOwn(target.store, k) =>
                        /\ HasOwn(target'.store, k)
                        /\ Lookup(target'.store, k) = Lookup(target.store, k)
                   /\ (HasOwn(target'.store, k) /\ ~HasOwn(target.store, k))
                        => k \in Reads(f)
              /\ calls'[f] = calls[f] + 1
         /\ (last.op = "get" /\ last.key = f /\ last.thrown)
              => calls'[f] = calls[f] + 1]_vars

C11_Witness ==
  /\ target.spec = Throwing("phone")
  /\ prev.op = "get" /\ prev.key = "contactInfo" /\ prev.thrown
  /\ last.op = "get" /\ last.key = "contactInfo" /\ last.thrown
  /\ calls["contactInfo"] = 2
  /\ HasOwn(target.store, "name")
  /\ ~HasOwn(target.store, "contactInfo")

----------------------------------------------------------------------------
(* Properties of two records of one factory (SpecTwo) *)

\* C13 (record independence): an operation on one record leaves the store
\* and the tombstones of the other record of the same factory unchanged,
\* and so the results of has, get, enumerate and describe on it.
C13_RecordIndependence ==
  [][(other # NoTarget /\ last'.op # "switch") =>
       /\ other'.store = other.store
       /\ other'.deletedKeys = other.deletedKeys
       /\ Views(other') = Views(other)]_vars

C13_Witness ==
  /\ other # NoTarget
  /\ other.store # <<>> /\ other.deletedKeys # {}
  /\ prev.op = "switch"
  /\ last.op = "set" /\ last.key = "foo"
  /\ ~HasOwn(other.store, "foo")
  /\ HasOwn(target.store, "foo")

----------------------------------------------------------------------------
(* Properties of a read taken one call at a time (SpecDeep) *)

OnStack(g) == \E i \in 1..Len(stack) : stack[i].prop = g

\* some key's function was called while it was running
Reentered ==
  \E i, j \in 1..Len(stack) : i < j /\ stack[i].prop = stack[j].prop

\* C18 (reentrancy): a read of a key whose function is running calls the
\* function again; once that has happened no call returns, the keys whose
\* functions are running are not stored, and the nesting grows up to any
\* bound on it; a read on a record whose spec has no cyclic dependency
\* completes.
C18_Reentrancy ==
  /\ [][(stack # <<>> /\ stack' # stack /\ Pending # <<>>
           /\ OnStack(Head(Pending)))
          => stack' = Append(stack, Frame(Head(Pending)))]_vars
  /\ [][Reentered => (Reentered' /\ Len(stack') >= Len(stack))]_vars
  /\ [](Reentered =>
          \A g \in SpecKeySet : OnStack(g) => ~HasOwn(target.store, g))
  /\ Reentered ~> (Len(stack) = MaxDepth)
  /\ (stack # <<>> /\ Acyclic(target.spec)) ~> (stack = <<>>)

C18_Witness ==
  /\ Len(stack) = MaxDepth
  /\ \A i \in 1..Len(stack) : stack[i].prop = "phone"
  /\ calls["phone"] = MaxDepth
  /\ ~HasOwn(target.store, "phone")

====
